---- MODULE Spec2Model ----
(***************************************************************************)
(* A model of udev-rs (src/udev/{util,iterator,device,monitor,udev}.rs):   *)
(* the errno classifier, the list iterator, Device ownership of native    *)
(* device handles, and the Monitor configure / enable / receive loop.     *)
(* The native library (libudev) is an environment: every native call      *)
(* draws its outcome (a handle or null, and what it leaves in errno) from  *)
(* a small set.                                                            *)
(***************************************************************************)
EXTENDS Integers, Sequences, FiniteSets, TLC

\* ---------------------------------------------------------------- constants

\* libc error codes the source names.
ENOMEM == 12
EINVAL == 22
\* libc's O_NONBLOCK status flag.
O_NONBLOCK == 2048

\* The null pointer, and the mark of a native call that left errno alone.
NULL == 0
Untouched == 0 - 1
\* A null char pointer, where a string is expected.
NullStr == "<null>"

\* ------------------------------------------------------------------- bounds

\* Device values (wrappers) that may be alive at once.
MaxDevices == 2
\* Depth of the device tree below its root.
MaxDepth == 1

\* Native monitor objects that may exist at once.
MaxMonitors == 1
\* MonitorIterator values that may be alive at once.
MaxIters == 2
\* Events the transport delivers in one run.
MaxEvents == 2
\* Nodes of a native list.
MaxLen == 2
\* Calls of Action::from_str in one run.
MaxParses == 2

\* Native device objects that may exist at once: one per Device, and a chain
\* of parents.
Handles == 1..(MaxDepth + 1)
Depths == 0..MaxDepth
Mons == 1..MaxMonitors
Iters == 1..MaxIters

\* An error code other than ENOMEM and EINVAL that a native call may report
\* (EACCES).
SystemErrs == {13}

VARIABLES
    status,     \* "running", "aborted" (alloc::oom) or "panicked" (panic!)
    errno,      \* the thread-local error indicator
    reg,        \* the native registry: per handle its reference count, the
                \* parent object attached to it, and the tree depth of its node
    devices,    \* the live Device values: per native handle, how many wrap it
    last,       \* the last call made: its name and argument, the native
                \* outcome it saw and what it gave back to the caller
    call,       \* the last classifier call: the errno it met, the native
                \* outcome and the classification
    mon,        \* the native monitor objects: reference count, channel,
                \* whether receiving is enabled, filters, fd status flags
    monitors,   \* the live Monitor values: whether one owns handle m
    iters,      \* the MonitorIterator values: the Monitor each borrows, where
                \* its next() stands, and what the classifier gave its loop
    seq,        \* the sequence number of the last event received
    sysattr,    \* the sysfs attributes of the device tree: per node (depth),
                \* per attribute name, its text or NullStr
    heap,       \* the native list nodes: pointer -> name, value, next
    heads,      \* per list accessor, the head pointer the native getter returns
    cursor,     \* the UdevIterator being walked: accessor, entry, items so far
    prev,       \* per accessor, what its last finished iteration yielded
    parsed,     \* the calls of Action::from_str made: each string and result
    log         \* when on, the record of a run: the devices the native
                \* receive returned and the items next() returned, in order

vars == <<status, errno, reg, devices, last, call, mon, monitors, iters, seq,
          sysattr, heap, heads, cursor, prev, parsed, log>>

listVars == <<heap, heads, cursor, prev>>

devVars == <<reg, devices>>

monVars == <<mon, monitors, iters, seq>>

\* One thread: while a next() is blocked in its loop nothing else runs.
Running == status = "running" /\ \A i \in Iters : iters[i].pc = "idle"

\* ---------------------------------------------------------------- util.rs

set_errno(e, value) == value

get_errno(e) == e

\* What errno holds after the closure f() ran: a native call either writes
\* the indicator or leaves it as it found it.
AfterCall(e, out) == IF out.err = Untouched THEN e ELSE out.err

\* The classification of a pointer result read with the indicator e.
ClassifyPtr(res, e) ==
    IF res = NULL
    THEN IF e = ENOMEM THEN [tag |-> "Oom", val |-> NULL]
         ELSE IF e = 0 THEN [tag |-> "None", val |-> NULL]
         ELSE [tag |-> "Err", val |-> e]
    ELSE [tag |-> "Some", val |-> res]

\* check_errno_mut without its set_errno(0).
check_errno_mut_stale(e, out) ==
    LET e1 == AfterCall(e, out)
        c  == ClassifyPtr(out.res, get_errno(e1))
    IN  [tag |-> c.tag, val |-> c.val, errno |-> e1]

\* check_errno_mut(f): errno is cleared, f runs, and a null result is
\* classified by the indicator.
check_errno_mut(e, out) ==
    LET e0 == set_errno(e, 0)
        e1 == AfterCall(e0, out)
        c  == ClassifyPtr(out.res, get_errno(e1))
    IN  [tag |-> c.tag, val |-> c.val, errno |-> e1]

\* check_errno(f): the same body over a *const c_char result, whose null is
\* NullStr.
check_errno(e, out) ==
    LET e0 == set_errno(e, 0)
        e1 == AfterCall(e0, out)
        c  == ClassifyPtr(IF out.res = NullStr THEN NULL ELSE 1, get_errno(e1))
    IN  [tag |-> c.tag, val |-> IF c.tag = "Some" THEN out.res ELSE c.val,
         errno |-> e1]

\* c_to_str(s): None for a null pointer, the text otherwise.
c_to_str(s) ==
    IF s = NullStr THEN [tag |-> "None", val |-> NullStr]
    ELSE [tag |-> "Some", val |-> s]

\* A call of the classifier `fn` with the native outcome `out`.
Classify(fn, out) ==
    LET c == IF fn = "check_errno" THEN check_errno(errno, out)
             ELSE check_errno_mut(errno, out)
    IN  /\ Running
        /\ errno' = c.errno
        /\ status' = IF c.tag = "Oom" THEN "aborted" ELSE status
        /\ call' = [fn |-> fn, pre |-> errno, out |-> out,
                    class |-> [tag |-> c.tag, val |-> c.val]]
        /\ UNCHANGED <<devVars, last, monVars, sysattr, listVars, parsed, log>>

\* Every result and errno a closure may leave: a pointer or null, errno
\* untouched or written with any code (0 included).
Pointers == {NULL, 1, 2}

ErrCodes == {0, ENOMEM, EINVAL} \cup SystemErrs

Texts == {NullStr, "73"}

Outcomes(P) == {[res |-> p, err |-> e] : p \in P, e \in {Untouched} \cup ErrCodes}

CheckErrnoMut == \E out \in Outcomes(Pointers) : Classify("check_errno_mut", out)

CheckErrno == \E out \in Outcomes(Texts) : Classify("check_errno", out)

\* ------------------------------------------------- native device objects

\* The pool ran dry: a mark for a native walk the model cannot follow.
Exhausted == 0 - 2

FreeHandles(r) == {h \in Handles : r.refs[h] = 0}

MinOf(S) == CHOOSE x \in S : \A y \in S : x <= y

\* udev_device_new_from_*: a new object with one reference, for a node at
\* depth d.
NewObject(r, h, d) ==
    [r EXCEPT !.refs[h] = 1, !.attached[h] = NULL, !.depth[h] = d,
              !.action[h] = NullStr, !.seqnum[h] = 0]

\* udev_device_get_parent: the parent object attached to h, created on the
\* first request and owned by h (h holds one reference on it); null at the
\* root.
udev_device_get_parent(r, h) ==
    IF r.attached[h] # NULL THEN [r |-> r, p |-> r.attached[h]]
    ELSE IF r.depth[h] = 0 THEN [r |-> r, p |-> NULL]
    ELSE IF FreeHandles(r) = {} THEN [r |-> r, p |-> Exhausted]
    ELSE LET p == MinOf(FreeHandles(r))
         IN  [r |-> [NewObject(r, p, r.depth[h] - 1) EXCEPT !.attached[h] = p],
              p |-> p]

\* The device tree: a "pci" controller with no devtype at the root, below
\* it "usb" nodes, a "usb_device" at odd depths and a "usb_interface" at
\* even ones.
NodeSubsystem(d) == IF d = 0 THEN "pci" ELSE "usb"

NodeDevtype(d) ==
    IF d = 0 THEN NullStr ELSE IF d % 2 = 1 THEN "usb_device" ELSE "usb_interface"

NodeMatches(d, subsystem, devtype) ==
    /\ subsystem = NodeSubsystem(d)
    /\ devtype = NullStr \/ devtype = NodeDevtype(d)

\* udev_device_get_parent_with_subsystem_devtype: the first ancestor that
\* matches, or null.
RECURSIVE udev_device_get_parent_with_subsystem_devtype(_, _, _, _)
udev_device_get_parent_with_subsystem_devtype(r, h, subsystem, devtype) ==
    LET g == udev_device_get_parent(r, h)
    IN  IF g.p \in {NULL, Exhausted} THEN g
        ELSE IF NodeMatches(g.r.depth[g.p], subsystem, devtype) THEN g
        ELSE udev_device_get_parent_with_subsystem_devtype(g.r, g.p, subsystem, devtype)

\* udev_device_ref: one more reference; null stays null.
udev_device_ref(g) ==
    IF g.p \in {NULL, Exhausted} THEN g
    ELSE [r |-> [g.r EXCEPT !.refs[g.p] = @ + 1], p |-> g.p]

\* udev_device_unref: one reference less; the object that loses its last
\* one is freed and releases the parent attached to it.
RECURSIVE udev_device_unref(_, _)
udev_device_unref(r, h) ==
    IF h = NULL \/ r.refs[h] = 0 THEN r
    ELSE IF r.refs[h] > 1 THEN [r EXCEPT !.refs[h] = @ - 1]
    ELSE udev_device_unref(
             [r EXCEPT !.refs[h] = 0, !.attached[h] = NULL, !.depth[h] = 0,
                       !.action[h] = NullStr, !.seqnum[h] = 0],
             r.attached[h])

\* What a failing native call gives: null, with errno left alone or set.
NativeFailures ==
    {[res |-> NULL, err |-> e] : e \in {Untouched, ENOMEM} \cup SystemErrs}

\* What a native call that found its object may leave in errno.
SuccessErrs == {Untouched}

\* -------------------------------------------------------------- device.rs

RECURSIVE SumOver(_, _)
SumOver(f, S) ==
    IF S = {} THEN 0
    ELSE LET x == CHOOSE y \in S : TRUE IN f[x] + SumOver(f, S \ {x})

\* The number of Device values alive.
LiveDevices == SumOver(devices, Handles)

\* device::device(udev, dev): the wrapper takes the handle as it is.
device(dev) == [devices EXCEPT ![dev] = @ + 1]

\* The match every lookup ends in: Ok(Some(dev)) => Some(device(..)), _ => None.
\* An out-of-memory classification never gets there: oom() ends the process.
\* (LookupResultNone: a match that yields None on every arm.)
LookupResultNone(c) ==
    IF c.tag = "Oom" THEN [tag |-> "Abort", val |-> NULL]
    ELSE [tag |-> "None", val |-> NULL]

LookupResult(c) ==
    IF c.tag = "Some" THEN [tag |-> "Some", val |-> c.val]
    ELSE IF c.tag = "Oom" THEN [tag |-> "Abort", val |-> NULL]
    ELSE [tag |-> "None", val |-> NULL]

\* A lookup: the native call `out` ran (leaving the registry r), its result
\* is classified, and a Device is made of a non-null handle.
Lookup(op, arg, out, r) ==
    LET c   == check_errno_mut(errno, out)
        ret == LookupResult(c)
    IN  /\ errno' = c.errno
        /\ reg' = r
        /\ status' = IF c.tag = "Oom" THEN "aborted" ELSE status
        /\ devices' = IF ret.tag = "Some" THEN device(ret.val) ELSE devices
        /\ last' = [op |-> op, arg |-> arg, out |-> out, ret |-> ret]
        /\ UNCHANGED <<call, monVars, sysattr, listVars, parsed, log>>

\* The closures of parent(), parent_with_subsystem() and
\* parent_with_subsystem_devtype(): the reference is taken on what the
\* native lookup returned.
\* (ParentCallNoRef: the closure without its udev_device_ref.)
ParentCallNoRef(r, h) == udev_device_get_parent(r, h)

ParentCall(r, h) == udev_device_ref(udev_device_get_parent(r, h))

ParentWithSubsystemCall(r, h, subsystem) ==
    udev_device_ref(
        udev_device_get_parent_with_subsystem_devtype(r, h, subsystem, NullStr))

ParentWithSubsystemDevtypeCall(r, h, subsystem, devtype) ==
    udev_device_ref(
        udev_device_get_parent_with_subsystem_devtype(r, h, subsystem, devtype))

\* One parent lookup on a Device wrapping h, the native walk being g; the
\* native call may also fail outright.
ParentLookup(op, h, g) ==
    /\ Running
    /\ devices[h] > 0
    /\ LiveDevices < MaxDevices
    /\ \/ /\ g.p # Exhausted
          /\ \E e \in SuccessErrs :
              Lookup(op, h, [res |-> g.p, err |-> e], g.r)
       \/ \E out \in NativeFailures : Lookup(op, h, out, reg)

parent(h) == ParentLookup("parent", h, ParentCall(reg, h))

parent_with_subsystem(h, subsystem) ==
    ParentLookup("parent_with_subsystem", h,
                 ParentWithSubsystemCall(reg, h, subsystem))

parent_with_subsystem_devtype(h, subsystem, devtype) ==
    ParentLookup("parent_with_subsystem_devtype", h,
                 ParentWithSubsystemDevtypeCall(reg, h, subsystem, devtype))

\* The sysfs attribute names and texts of the model.
AttrNames == {"flags", "missing"}

AttrTexts == {"73", "0"}

\* udev_device_get_sysattr_value: the attribute's text, or null when the
\* node has no such attribute; the call may also fail with errno set.
NativeSysattrValue(h, attr) ==
    {[res |-> sysattr[reg.depth[h]][attr], err |-> Untouched]}
        \cup {[res |-> NullStr, err |-> e] : e \in {ENOMEM} \cup SystemErrs}

\* The match of attribute(): Ok(text), NotFound, or the raw OS error. An
\* out-of-memory classification never gets there.
\* (AttributeResultCollapses: a match that reports every failure as NotFound.)
AttributeResultCollapses(c) ==
    IF c.tag = "Some" THEN [tag |-> "Ok", val |-> c_to_str(c.val).val]
    ELSE IF c.tag = "Oom" THEN [tag |-> "Abort", val |-> NULL]
    ELSE [tag |-> "NotFound", val |-> NULL]

AttributeResult(c) ==
    IF c.tag = "Some" THEN [tag |-> "Ok", val |-> c_to_str(c.val).val]
    ELSE IF c.tag = "None" THEN [tag |-> "NotFound", val |-> NULL]
    ELSE IF c.tag = "Err" THEN [tag |-> "Err", val |-> c.val]
    ELSE [tag |-> "Abort", val |-> NULL]

\* Device::attribute(attr).
attribute(h, attr) ==
    /\ Running
    /\ devices[h] > 0
    /\ \E out \in NativeSysattrValue(h, attr) :
        LET c == check_errno(errno, out)
        IN  /\ errno' = c.errno
            /\ status' = IF c.tag = "Oom" THEN "aborted" ELSE status
            /\ last' = [op |-> "attribute", arg |-> <<h, attr>>, out |-> out,
                        ret |-> AttributeResult(c)]
    /\ UNCHANGED <<devVars, call, monVars, sysattr, listVars, parsed, log>>

\* udev_device_set_sysattr_value: 0 and the text written when the attribute
\* exists, a negative errno otherwise (ENOENT for a missing attribute) or
\* when the write fails.
NativeSetSysattr(h, attr, value) ==
    (IF sysattr[reg.depth[h]][attr] # NullStr
     THEN {[rc |-> 0,
            attrs |-> [sysattr EXCEPT ![reg.depth[h]][attr] = value]]}
     ELSE {[rc |-> 0 - 2, attrs |-> sysattr]})
        \cup {[rc |-> 0 - e, attrs |-> sysattr] : e \in {ENOMEM} \cup SystemErrs}

\* The match of set_attribute(): 0 => Ok(()), n < 0 => Err(-n), and a panic
\* on anything else.
SetAttributeResult(n) ==
    IF n = 0 THEN [tag |-> "Ok", val |-> NULL]
    ELSE IF n < 0 THEN [tag |-> "Err", val |-> 0 - n]
    ELSE [tag |-> "Abort", val |-> NULL]

\* Device::set_attribute(attr, value).
set_attribute(h, attr, value) ==
    /\ Running
    /\ devices[h] > 0
    /\ \E o \in NativeSetSysattr(h, attr, value) :
        LET ret == SetAttributeResult(o.rc)
        IN  /\ sysattr' = o.attrs
            /\ status' = IF ret.tag = "Abort" THEN "panicked" ELSE status
            /\ last' = [op |-> "set_attribute", arg |-> <<h, attr>>,
                        out |-> [res |-> o.rc, err |-> Untouched], ret |-> ret]
    /\ UNCHANGED <<errno, devVars, call, monVars, listVars, parsed, log>>

\* impl Drop for Device.
DropRelease(r, h) == udev_device_unref(r, h)

DropDevice(h) ==
    /\ Running
    /\ devices[h] > 0
    /\ reg' = DropRelease(reg, h)
    /\ devices' = [devices EXCEPT ![h] = @ - 1]
    /\ last' = [op |-> "drop", arg |-> h,
                out |-> [res |-> NULL, err |-> Untouched],
                ret |-> [tag |-> "Unit", val |-> NULL]]
    /\ UNCHANGED <<status, errno, call, monVars, sysattr, listVars, parsed, log>>

\* ---------------------------------------------------------------- udev.rs

\* udev_device_new_from_syspath / _devnum / _subsystem_sysname: a new object
\* for the node found, or null.
ContextLookup(op) ==
    /\ Running
    /\ LiveDevices < MaxDevices
    /\ \/ /\ FreeHandles(reg) # {}
          /\ \E d \in Depths, e \in SuccessErrs :
              LET h == MinOf(FreeHandles(reg))
              IN  Lookup(op, NULL, [res |-> h, err |-> e], NewObject(reg, h, d))
       \/ \E out \in NativeFailures : Lookup(op, NULL, out, reg)

Udev_device == ContextLookup("device")

Udev_device_from_devnum == ContextLookup("device_from_devnum")

Udev_device_from_subsystem_sysname == ContextLookup("device_from_subsystem_sysname")

\* ------------------------------------------------------------- iterator.rs

\* The list getters of a Device, one per accessor.
Accessors == {"devlinks", "tags", "properties", "attributes"}

AccIndex(a) ==
    IF a = "devlinks" THEN 0 ELSE IF a = "tags" THEN 1
    ELSE IF a = "properties" THEN 2 ELSE 3

\* The pointer of the k-th node of accessor a's list.
Ptr(a, k) == AccIndex(a) * MaxLen + k

Ptrs == 1..(Cardinality(Accessors) * MaxLen)

\* The name of the node at position k of a list.
NodeNames == <<"e1", "e2", "e3", "e4">>

NameAt(k) == NodeNames[((k - 1) % Len(NodeNames)) + 1]

NoNode == [name |-> NullStr, value |-> NullStr, next |-> NULL]

NoCursor == [acc |-> NullStr, entry |-> NULL, state |-> "none",
             raw |-> <<>>, items |-> <<>>]

NoRun == [acc |-> NullStr, runs |-> 0, items |-> <<>>]

\* udev_list_entry_get_name / _get_value / _get_next.
udev_list_entry_get_name(hp, e) == hp[e].name

udev_list_entry_get_value(hp, e) == hp[e].value

udev_list_entry_get_next(hp, e) == hp[e].next

\* iterator::iterator(parent, entry).
iterator(a, entry) ==
    [acc |-> a, entry |-> entry, state |-> "walking", raw |-> <<>>, items |-> <<>>]

\* (UdevNextStays: a next() that leaves the cursor where it is.)
UdevNextStays(hp, it) ==
    IF it.entry = NULL THEN [ret |-> [tag |-> "None"], entry |-> it.entry]
    ELSE [ret |-> [tag |-> "Some",
                   name |-> c_to_str(udev_list_entry_get_name(hp, it.entry)).val,
                   value |-> c_to_str(udev_list_entry_get_value(hp, it.entry))],
          entry |-> it.entry]

\* UdevIterator::next(): None at a null entry; otherwise the entry's name and
\* optional value, and the cursor moves to the next entry.
UdevNext(hp, it) ==
    IF it.entry = NULL THEN [ret |-> [tag |-> "None"], entry |-> it.entry]
    ELSE [ret |-> [tag |-> "Some",
                   name |-> c_to_str(udev_list_entry_get_name(hp, it.entry)).val,
                   value |-> c_to_str(udev_list_entry_get_value(hp, it.entry))],
          entry |-> udev_list_entry_get_next(hp, it.entry)]

\* The closures the accessors map over the iterator: a path of the key for
\* devlinks, the key for tags and attributes, key and value for properties.
MapItem(a, r) ==
    IF a = "devlinks" THEN <<"PathBuf", r.name>>
    ELSE IF a = "properties" THEN <<r.name, r.value>>
    ELSE r.name

\* Device::iter_devlinks / iter_tags / iter_properties / iter_attributes: an
\* iterator from the head the native getter returns.
IterList(a) ==
    /\ status = "running"
    /\ cursor' = iterator(a, heads[a])
    /\ UNCHANGED <<status, errno, devVars, last, call, monVars, sysattr,
                   heap, heads, prev, parsed, log>>

iter_devlinks == IterList("devlinks")

iter_tags == IterList("tags")

iter_properties == IterList("properties")

iter_attributes == IterList("attributes")

\* One call of next() on the mapped iterator; the run that ends is recorded
\* with the number of runs of the same accessor in a row (2 standing for
\* more).
ListNext ==
    /\ status = "running"
    /\ cursor.state # "none"
    /\ LET n == UdevNext(heap, cursor)
       IN  IF n.ret.tag = "None"
           THEN /\ cursor' = [cursor EXCEPT !.state = "ended"]
                /\ prev' = IF cursor.state = "ended" THEN prev
                           ELSE [acc |-> cursor.acc,
                                 runs |-> IF prev.acc = cursor.acc THEN 2 ELSE 1,
                                 items |-> cursor.items]
           ELSE /\ cursor' = [cursor EXCEPT
                                 !.entry = n.entry,
                                 !.raw = Append(@, [name |-> n.ret.name,
                                                    value |-> n.ret.value]),
                                 !.items = Append(@, MapItem(cursor.acc, n.ret))]
                /\ prev' = prev
    /\ UNCHANGED <<status, errno, devVars, last, call, monVars, sysattr, heap, heads,
                   parsed, log>>

\* The lists a device may have: any length up to MaxLen per accessor, names
\* by position, a value or none on each property and no value elsewhere.
ListShapes == [Accessors -> 0..MaxLen]

PropertyValues == [1..MaxLen -> {NullStr, "1"}]

BuildHeap(len, vals) ==
    [p \in Ptrs |->
        LET a == CHOOSE x \in Accessors : AccIndex(x) = (p - 1) \div MaxLen
            k == ((p - 1) % MaxLen) + 1
        IN  IF k > len[a] THEN NoNode
            ELSE [name |-> NameAt(k),
                  value |-> IF a = "properties" THEN vals[k] ELSE NullStr,
                  next |-> IF k < len[a] THEN Ptr(a, k + 1) ELSE NULL]]

BuildHeads(len) == [a \in Accessors |-> IF len[a] = 0 THEN NULL ELSE Ptr(a, 1)]

\* ------------------------------------------------------------- monitor.rs

NoMonitor == [refs |-> 0, name |-> NullStr, receiving |-> FALSE, filters |-> {},
              flags |-> 0]

\* No MonitorIterator; `retried` records that the call of next() under way
\* has gone round its loop.
NoIter == [mon |-> NULL, pc |-> "idle", got |-> [tag |-> "None", val |-> NULL],
           retried |-> FALSE]

\* The MonitorIterator values that borrow Monitor m.
Borrowers(m) == {i \in Iters : iters[i].mon = m}

FreeIters == {i \in Iters : iters[i].mon = NULL}

FreeMonitors == {m \in Mons : mon[m].refs = 0}

\* udev_monitor_unref of the only reference: the object is gone.
udev_monitor_unref(mo, m) == [mo EXCEPT ![m] = NoMonitor]

\* The status a native filter or enable call returns: 0, or a negative
\* errno.
StatusCodes == {0, 0 - ENOMEM, 0 - EINVAL}

\* (handle_error_swallows: a classifier that lets a failing status through.)
handle_error_swallows(err) ==
    IF err = 0 - ENOMEM THEN "aborted" ELSE "running"

\* handle_error(err): what becomes of the process.
handle_error(err) ==
    IF err = 0 THEN "running"
    ELSE IF err = 0 - ENOMEM THEN "aborted"
    ELSE "panicked"

\* udev_monitor_filter_add_match_subsystem_devtype / _tag, and
\* udev_monitor_filter_remove: the filter list after a call that returned rc.
FilterAdd(mo, m, rc, f) ==
    IF rc = 0 THEN [mo EXCEPT ![m].filters = @ \cup {f}] ELSE mo

FilterRemove(mo, m, rc) ==
    IF rc = 0 THEN [mo EXCEPT ![m].filters = {}] ELSE mo

\* A call that takes the Monitor by value (self), hands the native status
\* rc to handle_error and returns self: nothing may borrow the Monitor, and
\* it comes back only when handle_error returns. A panic unwinds through
\* the call and drops self; an abort drops nothing.
ConfigCall(op, m, rc, mo) ==
    LET st == handle_error(rc)
    IN  /\ Running
        /\ monitors[m]
        /\ Borrowers(m) = {}
        /\ status' = st
        /\ mon' = IF st = "panicked" THEN udev_monitor_unref(mo, m) ELSE mo
        /\ monitors' = [monitors EXCEPT ![m] = (st = "running")]
        /\ last' = [op |-> op, arg |-> m, out |-> [res |-> rc, err |-> Untouched],
                    ret |-> IF st = "running" THEN [tag |-> "Monitor", val |-> m]
                            ELSE [tag |-> "Abort", val |-> NULL]]
        /\ UNCHANGED <<errno, devVars, call, iters, seq, sysattr, listVars, parsed, log>>

filter_by_subsystem(m, subsystem) ==
    \E rc \in StatusCodes :
        ConfigCall("filter_by_subsystem", m, rc,
                   FilterAdd(mon, m, rc, <<"subsystem", subsystem, NullStr>>))

filter_by_subsystem_devtype(m, subsystem, devtype) ==
    \E rc \in StatusCodes :
        ConfigCall("filter_by_subsystem_devtype", m, rc,
                   FilterAdd(mon, m, rc, <<"subsystem", subsystem, devtype>>))

filter_by_tag(m, tag) ==
    \E rc \in StatusCodes :
        ConfigCall("filter_by_tag", m, rc,
                   FilterAdd(mon, m, rc, <<"tag", tag, NullStr>>))

clear_filters(m) ==
    \E rc \in StatusCodes :
        ConfigCall("clear_filters", m, rc, FilterRemove(mon, m, rc))

\* The native call of iter(): udev_monitor_enable_receiving, which returned
\* rc.
\* (IterNoEnable: an iter() that does not enable receiving.)
IterNoEnable(mo, m, rc) == mo

IterEnable(mo, m, rc) ==
    IF rc = 0 THEN [mo EXCEPT ![m].receiving = TRUE] ELSE mo

\* Monitor::iter(&self): enables receiving and lends the Monitor to a new
\* MonitorIterator.
iter(m) ==
    /\ Running
    /\ monitors[m]
    /\ FreeIters # {}
    /\ \E rc \in StatusCodes :
        LET st == handle_error(rc)
            i  == MinOf(FreeIters)
        IN  /\ status' = st
            /\ mon' = IterEnable(mon, m, rc)
            /\ iters' = IF st = "running"
                        THEN [iters EXCEPT ![i] = [NoIter EXCEPT !.mon = m]]
                        ELSE iters
            /\ last' = [op |-> "iter", arg |-> m,
                        out |-> [res |-> rc, err |-> Untouched],
                        ret |-> IF st = "running"
                                THEN [tag |-> "MonitorIterator", val |-> i]
                                ELSE [tag |-> "Abort", val |-> NULL]]
            /\ UNCHANGED <<errno, devVars, call, monitors, seq, sysattr, listVars, parsed, log>>

\* impl Drop for Monitor.
DropMonitor(m) ==
    /\ Running
    /\ monitors[m]
    /\ Borrowers(m) = {}
    /\ mon' = udev_monitor_unref(mon, m)
    /\ monitors' = [monitors EXCEPT ![m] = FALSE]
    /\ last' = [op |-> "drop_monitor", arg |-> m,
                out |-> [res |-> NULL, err |-> Untouched],
                ret |-> [tag |-> "Unit", val |-> NULL]]
    /\ UNCHANGED <<status, errno, devVars, call, iters, seq, sysattr, listVars, parsed, log>>

\* A MonitorIterator goes out of scope: its borrow of the Monitor ends.
DropIterator(i) ==
    /\ Running
    /\ iters[i].mon # NULL
    /\ iters' = [iters EXCEPT ![i] = NoIter]
    /\ last' = [op |-> "drop_iterator", arg |-> i,
                out |-> [res |-> NULL, err |-> Untouched],
                ret |-> [tag |-> "Unit", val |-> NULL]]
    /\ UNCHANGED <<status, errno, devVars, call, mon, monitors, seq, sysattr,
                   listVars, parsed, log>>

\* (from_str_known_only: a parser that fails on a string it does not know.)
from_str_known_only(s) ==
    IF s = "add" THEN [tag |-> "Ok", val |-> <<"Add">>]
    ELSE IF s = "remove" THEN [tag |-> "Ok", val |-> <<"Remove">>]
    ELSE IF s = "change" THEN [tag |-> "Ok", val |-> <<"Change">>]
    ELSE IF s = "move" THEN [tag |-> "Ok", val |-> <<"Move">>]
    ELSE IF s = "online" THEN [tag |-> "Ok", val |-> <<"Online">>]
    ELSE IF s = "offline" THEN [tag |-> "Ok", val |-> <<"Offline">>]
    ELSE [tag |-> "Err", val |-> <<>>]

\* The record of a run, off and on.
NoLog == [on |-> FALSE, received |-> <<>>, yielded |-> <<>>]

NewLog == [on |-> TRUE, received |-> <<>>, yielded |-> <<>>]

\* impl FromStr for Action: every arm of the match is Ok(..).
from_str(s) ==
    IF s = "add" THEN [tag |-> "Ok", val |-> <<"Add">>]
    ELSE IF s = "remove" THEN [tag |-> "Ok", val |-> <<"Remove">>]
    ELSE IF s = "change" THEN [tag |-> "Ok", val |-> <<"Change">>]
    ELSE IF s = "move" THEN [tag |-> "Ok", val |-> <<"Move">>]
    ELSE IF s = "online" THEN [tag |-> "Ok", val |-> <<"Online">>]
    ELSE IF s = "offline" THEN [tag |-> "Ok", val |-> <<"Offline">>]
    ELSE [tag |-> "Ok", val |-> <<"Other", s>>]

\* The strings given to from_str: the six known actions, other kernel
\* actions, and near misses of a known one (case, a longer or shorter word,
\* the empty string).
ActionStrings ==
    {"add", "remove", "change", "move", "online", "offline",
     "bind", "unbind", "", "Add", "ADD", "adds", "ad", "remove "}

\* One call of Action::from_str(s).
Action_from_str(s) ==
    /\ status = "running"
    /\ Len(parsed) < MaxParses
    /\ parsed' = Append(parsed, [s |-> s, ret |-> from_str(s)])
    /\ UNCHANGED <<status, errno, devVars, last, call, monVars, sysattr, listVars, log>>

\* The action strings of the events the transport carries.
EventActions == {"add", "bind"}

\* MonitorIterator::next() is called: the loop is entered.
MonitorIterator_next(i) ==
    /\ Running
    /\ iters[i].mon # NULL
    /\ iters' = [iters EXCEPT ![i].pc = "loop"]
    /\ UNCHANGED <<status, errno, devVars, last, call, mon, monitors, seq,
                   sysattr, listVars, parsed, log>>

\* One attempt of the loop: check_errno_mut(udev_monitor_receive_device).
\* The native call returns the device of the next event of a bound socket,
\* as a new object with one reference that carries the event's action and
\* sequence number, or null.
NextReceive(i) ==
    LET m == iters[i].mon
        attempt(out, r, n) ==
            LET c == check_errno_mut(errno, out)
            IN  /\ errno' = c.errno
                /\ status' = IF c.tag = "Oom" THEN "aborted" ELSE status
                /\ reg' = r
                /\ seq' = n
                /\ iters' = [iters EXCEPT ![i].pc = "got",
                                          ![i].got = [tag |-> c.tag, val |-> c.val]]
                /\ log' = IF log.on /\ out.res # NULL
                           THEN [log EXCEPT !.received =
                                    Append(@, [mon |-> m, iter |-> i, dev |-> out.res,
                                               action |-> r.action[out.res],
                                               seqnum |-> r.seqnum[out.res]])]
                           ELSE log
    IN  /\ status = "running"
        /\ iters[i].pc = "loop"
        /\ \/ /\ mon[m].receiving
              /\ seq < MaxEvents
              /\ FreeHandles(reg) # {}
              /\ LiveDevices < MaxDevices
              /\ \E a \in EventActions, e \in SuccessErrs :
                  LET h == MinOf(FreeHandles(reg))
                  IN  attempt([res |-> h, err |-> e],
                              [NewObject(reg, h, MaxDepth) EXCEPT !.action[h] = a,
                                                                  !.seqnum[h] = seq + 1],
                              seq + 1)
           \/ \E out \in NativeFailures : attempt(out, reg, seq)
        /\ UNCHANGED <<devices, last, call, mon, monitors, sysattr, listVars, parsed>>

\* The `if let Ok(Some(dev)) = ...` of the loop: what next() does with the
\* classifier's answer.
\* (LoopMatchEndsOnError: a loop that ends the sequence on a system error.)
LoopMatchEndsOnError(got) ==
    IF got.tag = "Some" THEN [return |-> TRUE, item |-> [tag |-> "Some", val |-> got.val]]
    ELSE IF got.tag = "Err" THEN [return |-> TRUE, item |-> [tag |-> "None", val |-> NULL]]
    ELSE [return |-> FALSE, item |-> [tag |-> "None", val |-> NULL]]

LoopMatch(got) ==
    IF got.tag = "Some" THEN [return |-> TRUE, item |-> [tag |-> "Some", val |-> got.val]]
    ELSE [return |-> FALSE, item |-> [tag |-> "None", val |-> NULL]]

\* (EventOfAdd: an Event that does not read the device's action.)
EventOfAdd(r, dev) == [action |-> <<"Add">>, seqnum |-> r.seqnum[dev]]

\* The Event built from the device received.
EventOf(r, dev) == [action |-> from_str(r.action[dev]).val, seqnum |-> r.seqnum[dev]]

\* The rest of the loop body: return Some((Event, Device)) or go round.
NextMatch(i) ==
    LET d == LoopMatch(iters[i].got)
    IN  /\ status = "running"
        /\ iters[i].pc = "got"
        /\ IF d.return
           THEN /\ iters' = [iters EXCEPT ![i].pc = "idle", ![i].got = NoIter.got,
                                          ![i].retried = FALSE]
                /\ devices' = IF d.item.tag = "Some" THEN device(d.item.val) ELSE devices
                /\ last' = [op |-> "next", arg |-> i,
                            out |-> [res |-> iters[i].got.val, err |-> Untouched],
                            retried |-> iters[i].retried,
                            ret |-> IF d.item.tag = "Some"
                                    THEN [tag |-> "Some", val |-> d.item.val,
                                          event |-> EventOf(reg, d.item.val)]
                                    ELSE d.item]
                /\ log' = IF log.on
                           THEN [log EXCEPT !.yielded =
                                    Append(@, [mon |-> iters[i].mon, iter |-> i,
                                               item |-> last'.ret])]
                           ELSE log
           ELSE /\ iters' = [iters EXCEPT ![i].pc = "loop", ![i].got = NoIter.got,
                                          ![i].retried = TRUE]
                /\ UNCHANGED <<devices, last, log>>
        /\ UNCHANGED <<status, errno, reg, call, mon, monitors, seq, sysattr, listVars,
                       parsed>>

\* ---------------------------------------------------------------- udev.rs

\* (BitClearAll: a mask that clears every flag but the access mode.)
BitClearAll(x, bit) == x % 4

\* x & !bit, for a flag of one bit.
BitClear(x, bit) == IF (x \div bit) % 2 = 1 THEN x - bit ELSE x

\* The status flags a new netlink socket may carry: O_RDWR, with or without
\* O_NONBLOCK and O_APPEND.
InitialFlags == {2, 2 + O_NONBLOCK, 2 + 1024 + O_NONBLOCK}

\* What a failing fcntl leaves in errno (EBADF, EINVAL, ENOMEM).
FcntlErrs == {9, EINVAL, ENOMEM}

\* create_monitor's `match util::get_errno()` after a failed fcntl.
FcntlFailure(e) ==
    IF e \in {ENOMEM, EINVAL} THEN [status |-> "panicked", ret |-> [tag |-> "Abort", val |-> NULL]]
    ELSE [status |-> "running", ret |-> [tag |-> "Err", val |-> e]]

\* Udev::create_monitor(name). o is the outcome of
\* udev_monitor_new_from_netlink and f0 the flags of the new socket; g and s
\* are the errno of a failing fcntl(F_GETFL) and fcntl(F_SETFL), 0 when the
\* call succeeds.
create_monitor(name) ==
    /\ Running
    /\ FreeMonitors # {}
    /\ LET m == MinOf(FreeMonitors)
       IN  \E o \in {[res |-> m, err |-> Untouched]} \cup NativeFailures
                    \cup {[res |-> NULL, err |-> EINVAL]},
              f0 \in InitialFlags, g \in {0} \cup FcntlErrs, s \in {0} \cup FcntlErrs :
           LET c    == check_errno_mut(errno, o)
               made == [refs |-> 1, name |-> name, receiving |-> FALSE,
                        filters |-> {}, flags |-> f0]
               old_val == f0
               fail == IF g # 0 THEN g ELSE s
               end  == IF c.tag = "Oom"
                           THEN [status |-> "aborted", ret |-> [tag |-> "Abort", val |-> NULL]]
                       ELSE IF c.tag = "None" \/ (c.tag = "Err" /\ c.val = EINVAL)
                           THEN [status |-> "panicked", ret |-> [tag |-> "Abort", val |-> NULL]]
                       ELSE IF c.tag = "Err"
                           THEN [status |-> "running", ret |-> [tag |-> "Err", val |-> c.val]]
                       ELSE IF fail # 0 THEN FcntlFailure(fail)
                       ELSE [status |-> "running", ret |-> [tag |-> "Ok", val |-> m]]
           IN  /\ c.tag # "Some" => f0 = 2 /\ g = 0 /\ s = 0
               /\ g # 0 => s = 0
               /\ status' = end.status
               /\ errno' = IF c.tag = "Some" /\ fail # 0 THEN fail ELSE c.errno
               /\ mon' = IF c.tag # "Some" THEN mon
                         ELSE IF fail = 0
                              THEN [mon EXCEPT ![m] =
                                       [made EXCEPT !.flags = BitClear(old_val, O_NONBLOCK)]]
                         ELSE [mon EXCEPT ![m] = made]
               /\ monitors' = [monitors EXCEPT ![m] = (end.ret.tag = "Ok")]
               /\ last' = [op |-> "create_monitor", arg |-> name, out |-> o,
                           old_val |-> old_val, fcntl |-> <<g, s>>,
                           ret |-> end.ret]
               /\ UNCHANGED <<devVars, call, iters, seq, sysattr, listVars, parsed, log>>

Udev_monitor == create_monitor("udev")

Udev_monitor_kernel == create_monitor("kernel")

\* ------------------------------------------------------------ specifications

NoCall == [op |-> "none", arg |-> NULL,
           out |-> [res |-> NULL, err |-> Untouched],
           ret |-> [tag |-> "Unit", val |-> NULL]]

NoClassify == [fn |-> "none", pre |-> 0,
               out |-> [res |-> NULL, err |-> Untouched],
               class |-> [tag |-> "None", val |-> NULL]]

\* A device with no list entries.
NoLists ==
    /\ heap = [p \in Ptrs |-> NoNode]
    /\ heads = [a \in Accessors |-> NULL]
    /\ cursor = NoCursor
    /\ prev = NoRun

\* The program before its first call: no Device, no Monitor; every node of
\* the device tree has the attribute "flags" with the text "73" and no
\* attribute "missing".
NoObjects ==
    /\ status = "running"
    /\ errno = 0
    /\ reg = [refs |-> [h \in Handles |-> 0],
              attached |-> [h \in Handles |-> NULL],
              depth |-> [h \in Handles |-> 0],
              action |-> [h \in Handles |-> NullStr],
              seqnum |-> [h \in Handles |-> 0]]
    /\ devices = [h \in Handles |-> 0]
    /\ last = NoCall
    /\ call = NoClassify
    /\ seq = 0
    /\ sysattr = [d \in Depths |->
                     [a \in AttrNames |-> IF a = "flags" THEN "73" ELSE NullStr]]
    /\ parsed = <<>>

NoMonitors ==
    /\ mon = [m \in Mons |-> NoMonitor]
    /\ monitors = [m \in Mons |-> FALSE]
    /\ iters = [i \in Iters |-> NoIter]

Init == NoObjects /\ NoMonitors /\ NoLists /\ log = NoLog

\* The Device life cycle: Context lookups, parent lookups, drops.
Next ==
    \/ Udev_device
    \/ Udev_device_from_devnum
    \/ Udev_device_from_subsystem_sysname
    \/ \E h \in Handles : parent(h)
    \/ \E h \in Handles : parent_with_subsystem(h, "pci")
    \/ \E h \in Handles, t \in {"usb_device", "usb_interface"} :
           parent_with_subsystem_devtype(h, "usb", t)
    \/ \E h \in Handles : DropDevice(h)

Spec == Init /\ [][Next]_vars

\* The state `let m = udev.monitor()?; let it = m.iter();` leaves: a Monitor
\* on the "udev" channel, receiving, lent to one MonitorIterator.
Listening ==
    /\ mon = [m \in Mons |->
                 IF m = 1 THEN [refs |-> 1, name |-> "udev", receiving |-> TRUE,
                                filters |-> {}, flags |-> 2]
                 ELSE NoMonitor]
    /\ monitors = [m \in Mons |-> m = 1]
    /\ iters = [i \in Iters |-> IF i = 1 THEN [NoIter EXCEPT !.mon = 1] ELSE NoIter]

InitListening == NoObjects /\ Listening /\ NoLists /\ log = NoLog

\* Every way a Device comes to be and goes: lookups, parent lookups, the
\* devices a listening MonitorIterator yields, drops.
NextRef ==
    \/ Udev_device
    \/ \E h \in Handles : parent(h)
    \/ \E h \in Handles : parent_with_subsystem(h, "pci")
    \/ \E h \in Handles : parent_with_subsystem_devtype(h, "usb", "usb_device")
    \/ \E i \in Iters : MonitorIterator_next(i)
    \/ \E i \in Iters : NextReceive(i)
    \/ \E i \in Iters : NextMatch(i)
    \/ \E h \in Handles : DropDevice(h)

SpecRef == InitListening /\ [][NextRef]_vars

\* The receive loop: a Monitor is made and enabled, events arrive and are
\* received.
NextRecv ==
    \/ Udev_monitor
    \/ \E m \in Mons : iter(m)
    \/ \E i \in Iters : MonitorIterator_next(i)
    \/ \E i \in Iters : NextReceive(i)
    \/ \E i \in Iters : NextMatch(i)
    \/ \E i \in Iters : DropIterator(i)
    \/ \E m \in Mons : DropMonitor(m)
    \/ \E h \in Handles : DropDevice(h)

SpecRecv == Init /\ [][NextRecv]_vars

\* A listening MonitorIterator: calls of next(), and the devices they yield
\* dropped. The loop of next() is not abandoned while the process runs: a
\* call that has classified a native result goes on to act on it.
NextListen ==
    \/ \E i \in Iters : MonitorIterator_next(i)
    \/ \E i \in Iters : NextReceive(i)
    \/ \E i \in Iters : NextMatch(i)
    \/ \E h \in Handles : DropDevice(h)

SpecListen ==
    /\ InitListening
    /\ [][NextListen]_vars
    /\ WF_vars(\E i \in Iters : NextMatch(i))

\* The state `let m = udev.monitor()?; let a = m.iter(); let b = m.iter();`
\* leaves: one receiving Monitor lent to two MonitorIterators.
ListeningTwice ==
    /\ mon = [m \in Mons |->
                 IF m = 1 THEN [refs |-> 1, name |-> "udev", receiving |-> TRUE,
                                filters |-> {}, flags |-> 2]
                 ELSE NoMonitor]
    /\ monitors = [m \in Mons |-> m = 1]
    /\ iters = [i \in Iters |-> IF i <= 2 THEN [NoIter EXCEPT !.mon = 1] ELSE NoIter]

\* Two iterators of one Monitor advanced in any interleaving, the run
\* recorded.
InitYield == NoObjects /\ ListeningTwice /\ NoLists /\ log = NewLog

SpecYield == InitYield /\ [][NextListen]_vars

\* The life of a Monitor: made, filtered, enabled, listened to, dropped.
NextCfg ==
    \/ Udev_monitor
    \/ \E m \in Mons : filter_by_tag(m, "seat")
    \/ \E m \in Mons : clear_filters(m)
    \/ \E m \in Mons : iter(m)
    \/ \E i \in Iters : MonitorIterator_next(i)
    \/ \E i \in Iters : NextReceive(i)
    \/ \E i \in Iters : NextMatch(i)
    \/ \E i \in Iters : DropIterator(i)
    \/ \E m \in Mons : DropMonitor(m)

SpecCfg == Init /\ [][NextCfg]_vars

\* The calls that hand a native status to handle_error.
NextStatus ==
    \/ Udev_monitor
    \/ \E m \in Mons : filter_by_subsystem(m, "usb")
    \/ \E m \in Mons : filter_by_subsystem_devtype(m, "usb", "usb_device")
    \/ \E m \in Mons : filter_by_tag(m, "seat")
    \/ \E m \in Mons : clear_filters(m)
    \/ \E m \in Mons : iter(m)
    \/ \E i \in Iters : DropIterator(i)
    \/ \E m \in Mons : DropMonitor(m)

SpecStatus == Init /\ [][NextStatus]_vars

\* Monitors made on either channel, lent to iterators, and dropped.
NextCreate ==
    \/ Udev_monitor
    \/ Udev_monitor_kernel
    \/ \E m \in Mons : iter(m)
    \/ \E i \in Iters : DropIterator(i)
    \/ \E m \in Mons : DropMonitor(m)

SpecCreate == Init /\ [][NextCreate]_vars

\* The classifier alone, over every outcome of the closure.
NextErr == CheckErrnoMut \/ CheckErrno

SpecErr == Init /\ [][NextErr]_vars

\* The sysfs attributes of the devices looked up.
NextAttr ==
    \/ Udev_device
    \/ \E h \in Handles, a \in AttrNames : attribute(h, a)
    \/ \E h \in Handles, a \in AttrNames, v \in AttrTexts : set_attribute(h, a, v)
    \/ \E h \in Handles : DropDevice(h)

SpecAttr == Init /\ [][NextAttr]_vars

\* The lists of one device, walked by its accessors.
InitList ==
    /\ NoObjects
    /\ NoMonitors
    /\ \E len \in ListShapes, vals \in PropertyValues :
        /\ heap = BuildHeap(len, vals)
        /\ heads = BuildHeads(len)
    /\ cursor = NoCursor
    /\ prev = NoRun
    /\ log = NoLog

NextList ==
    \/ iter_devlinks
    \/ iter_tags
    \/ iter_properties
    \/ iter_attributes
    \/ ListNext

SpecList == InitList /\ [][NextList]_vars

\* The action parser alone, over every string of ActionStrings.
NextParse == \E s \in ActionStrings : Action_from_str(s)

SpecParse == Init /\ [][NextParse]_vars

\* ------------------------------------------------------------------ claims

\* The references the native layer itself holds on h: one per live object
\* that has h attached as its parent.
Children(h) == Cardinality({c \in Handles : reg.refs[c] > 0 /\ reg.attached[c] = h})

\* The handles a next() has received and not yet wrapped: the reference the
\* native call returned is on its way into a Device.
InFlight(h) ==
    Cardinality({i \in Iters : iters[i].got.tag = "Some" /\ iters[i].got.val = h})

\* C1: every Device owns exactly one reference on the handle it wraps: the
\* count of a handle is the number of live Devices wrapping it, plus the
\* native layer's own holds and the handle a next() is about to wrap; so it
\* is never lower than the number of Devices, and once every Device is
\* dropped every count is back at its starting value (0: no object is left
\* alive).
C1_RefCountBalanced ==
    /\ \A h \in Handles : reg.refs[h] = devices[h] + Children(h) + InFlight(h)
    /\ \A h \in Handles : reg.refs[h] >= devices[h]
    /\ LiveDevices = 0 /\ (\A h \in Handles : InFlight(h) = 0) =>
          \A h \in Handles : reg.refs[h] = 0

\* A Device made by a parent lookup was dropped and its handle lives on
\* with the one reference its child holds.
C1_Witness ==
    /\ last.op = "drop"
    /\ devices[last.arg] = 0
    /\ reg.refs[last.arg] = 1
    /\ \E c \in Handles : devices[c] > 0 /\ reg.attached[c] = last.arg

LookupOps == {"device", "device_from_devnum", "device_from_subsystem_sysname",
              "parent", "parent_with_subsystem", "parent_with_subsystem_devtype"}

\* The references held by Device values on h.
HeldByDevices(r, h) ==
    r.refs[h] - Cardinality({c \in Handles : r.refs[c] > 0 /\ r.attached[c] = h})

C8_Result ==
    last.op \in LookupOps =>
        /\ last.ret.tag = "Some" <=> last.out.res # NULL
        /\ last.ret.tag = "Some" =>
               last.ret.val = last.out.res /\ devices[last.out.res] >= 1
        /\ last.out.res = NULL /\ errno # ENOMEM =>
               last.ret = [tag |-> "None", val |-> NULL]

C8_Step ==
    last'.op \in LookupOps =>
        /\ last'.out.res = NULL =>
               /\ devices' = devices
               /\ \A h \in Handles : HeldByDevices(reg', h) = HeldByDevices(reg, h)
        /\ last'.out.res # NULL =>
               /\ devices' = [devices EXCEPT ![last'.out.res] = @ + 1]
               /\ \A h \in Handles :
                      HeldByDevices(reg', h) =
                          HeldByDevices(reg, h) + (IF h = last'.out.res THEN 1 ELSE 0)

\* C8: a lookup returns a Device exactly when the native lookup returned a
\* non-null handle, and the Device wraps that handle; null with error code 0
\* and null with a code other than out-of-memory both come back as absent,
\* and then no Device is created and no reference is left taken.
C8_LookupCollapses == []C8_Result /\ [][C8_Step]_vars

\* A parent lookup met a system error and came back absent.
C8_Witness ==
    /\ last.op = "parent"
    /\ last.out.res = NULL
    /\ last.out.err \in SystemErrs
    /\ last.ret.tag = "None"
    /\ status = "running"

\* The classification the contract gives a closure's outcome, whatever
\* errno held before the call.
Expected(fn, out) ==
    LET e == IF out.err = Untouched THEN 0 ELSE out.err
        null == IF fn = "check_errno" THEN out.res = NullStr ELSE out.res = NULL
    IN  IF ~null THEN [tag |-> "Some", val |-> out.res]
        ELSE IF e = 0 THEN [tag |-> "None", val |-> NULL]
        ELSE IF e = ENOMEM THEN [tag |-> "Oom", val |-> NULL]
        ELSE [tag |-> "Err", val |-> e]

\* C4: check_errno and check_errno_mut classify from the call's outcome
\* only: non-null is success with that result, null with indicator 0 is
\* NotFound, null with ENOMEM aborts the process, null with another code E
\* is SystemError(E); the indicator is cleared before the call, so what an
\* earlier call left there never changes the classification.
C4_ClassifiesFromOutcome ==
    call.fn # "none" =>
        /\ call.class = Expected(call.fn, call.out)
        /\ errno = (IF call.out.err = Untouched THEN 0 ELSE call.out.err)
        /\ call.class.tag = "Oom" <=> status = "aborted"

\* A call met a stale nonzero indicator, the closure returned null without
\* touching errno, and the outcome is NotFound.
C4_Witness ==
    /\ call.fn = "check_errno_mut"
    /\ call.pre # 0
    /\ call.out = [res |-> NULL, err |-> Untouched]
    /\ call.class.tag = "None"

FilterOps == {"filter_by_subsystem", "filter_by_subsystem_devtype",
              "filter_by_tag", "clear_filters"}

\* C2: no filter call is accepted on a Monitor on which receiving was
\* enabled: a filter call that returned its Monitor was made on a native
\* monitor that is not receiving.
C2_NoFilterAfterEnable ==
    last.op \in FilterOps /\ last.ret.tag = "Monitor" =>
        ~mon[last.ret.val].receiving

\* C3 (what next() returns): a call of next() that returned gave a
\* Some((Event, Device)) pair, never None: the Device wraps the handle the
\* native receive returned and the Event carries its sequence number.
C3_Returned ==
    last.op = "next" =>
        /\ last.ret.tag = "Some"
        /\ last.ret.val = last.out.res
        /\ last.out.res # NULL
        /\ devices[last.ret.val] >= 1
        /\ last.ret.event.seqnum = reg.seqnum[last.ret.val]

\* C3 (when next() returns): a call under way ends only on a device
\* received, which it returns; on a null attempt (no device, or a system error)
\* it goes round again and gives the caller nothing.
C3_Step ==
    \A i \in Iters :
        /\ iters[i].pc # "idle" /\ iters'[i].pc = "idle" =>
               /\ iters[i].pc = "got"
               /\ iters[i].got.tag = "Some"
               /\ last'.op = "next" /\ last'.arg = i
               /\ last'.ret.val = iters[i].got.val
        /\ iters[i].pc = "got" /\ iters[i].got.tag # "Some" =>
               /\ iters'[i].pc \in {"got", "loop"}
               /\ last' = last
               /\ devices' = devices

\* C3: MonitorIterator::next() never yields None; it retries silently on
\* every null attempt, returns only with an (Event, Device) pair and never
\* while no device has arrived, and a device the transport delivered to a
\* pending next() is eventually returned by it.
C3_NextNeverEnds ==
    /\ []C3_Returned
    /\ [][C3_Step]_vars
    /\ \A i \in Iters :
           (iters[i].pc = "got" /\ iters[i].got.tag = "Some")
               ~> (iters[i].pc = "idle" /\ last.op = "next" /\ last.arg = i)

\* A next() met a null attempt, went round its loop, and returned the device
\* of the event that arrived afterwards.
C3_Witness ==
    /\ last.op = "next"
    /\ last.retried
    /\ last.ret.tag = "Some"
    /\ devices[last.ret.val] = 1

\* C5: an allocation failure reported by the native layer is never returned
\* to the caller as an error value: no call gives back the out-of-memory
\* code, and the process does not go on after a native call reported it.
C5_OomNeverReturned ==
    LET byStatus == /\ last.op \in {"set_attribute", "iter"} \cup FilterOps
                    /\ last.out.res = 0 - ENOMEM
        byErrno  == last.out.err = ENOMEM
    IN  /\ (last.ret.tag = "Err") => (last.ret.val # ENOMEM)
        /\ (byStatus \/ byErrno) => (status # "running")

\* The node at position j of the list that starts at head p (NULL past the
\* end).
RECURSIVE NodeAt(_, _)
NodeAt(p, j) == IF j = 1 \/ p = NULL THEN p ELSE NodeAt(heap[p].next, j - 1)

\* The number of nodes of the list that starts at p.
RECURSIVE Length(_)
Length(p) == IF p = NULL THEN 0 ELSE 1 + Length(heap[p].next)

\* The item the contract gives for node p: its name, and its value unless
\* the native value is null.
ItemOf(p) ==
    [name |-> heap[p].name,
     value |-> IF heap[p].value = NullStr THEN [tag |-> "None", val |-> NullStr]
               ELSE [tag |-> "Some", val |-> heap[p].value]]

C6_Yielded ==
    cursor.state # "none" =>
        LET head == heads[cursor.acc]
        IN  /\ Len(cursor.raw) <= Length(head)
            /\ Len(cursor.items) = Len(cursor.raw)
            /\ \A j \in 1..Len(cursor.raw) : cursor.raw[j] = ItemOf(NodeAt(head, j))
            /\ cursor.state = "ended" => Len(cursor.raw) = Length(head)
            /\ head = NULL => cursor.raw = <<>>

C6_Step ==
    /\ heap' = heap
    /\ heads' = heads
    /\ cursor.state = "walking" /\ cursor'.state = "ended" /\ prev.acc = cursor.acc =>
           cursor'.items = prev.items

\* C6: the iterator yields nothing for a null head and, for a list of k
\* nodes, exactly k items in head-to-tail order, each with its node's name and
\* its value (absent for a null value); an accessor called twice in a row
\* yields the same sequence both times, and iterating changes no node.
C6_ListOrder == []C6_Yielded /\ [][C6_Step]_vars

\* iter_properties was walked to its end twice in a row over a list of
\* MaxLen nodes, the first without a value and the last with one.
C6_Witness ==
    /\ cursor.acc = "properties"
    /\ cursor.state = "ended"
    /\ prev.runs = 2
    /\ Len(cursor.raw) = MaxLen
    /\ cursor.raw[1].value.tag = "None"
    /\ cursor.raw[MaxLen].value.tag = "Some"

C7_State ==
    /\ last.op = "create_monitor" /\ last.ret.tag = "Ok" => ~mon[last.ret.val].receiving
    /\ last.op = "iter" /\ last.ret.tag = "MonitorIterator" => mon[last.arg].receiving
    /\ \A i \in Iters : iters[i].mon # NULL => mon[iters[i].mon].receiving

C7_Step ==
    \A m \in Mons :
        /\ mon[m].receiving /\ mon'[m].refs > 0 => mon'[m].receiving
        /\ ~mon[m].receiving /\ mon'[m].receiving => last'.op = "iter" /\ last'.arg = m

\* C7: a Monitor is created Configuring (not receiving), is Enabled
\* (receiving) once iter() returned, and stays Enabled through every later
\* operation while it exists; only iter() enables it, and every
\* MonitorIterator, so every receive attempt, is on an Enabled Monitor.
C7_EnabledForGood == []C7_State /\ [][C7_Step]_vars

\* iter() was called a second time on an Enabled Monitor, and a receive
\* attempt of one of its iterators has come back.
C7_Witness ==
    \E m \in Mons :
        /\ mon[m].receiving
        /\ Cardinality(Borrowers(m)) = 2
        /\ \E i \in Borrowers(m) : iters[i].pc = "got"

\* C9 (the result): attribute(name) gives the attribute's text when the
\* native call returned it, NotFound on null with error code 0, and the OS
\* code E on null with code E (the out-of-memory code ends the process
\* before anything is returned); "flags" of a device whose attribute is
\* "73" reads "73", and "missing" reads NotFound.
C9_Result ==
    last.op = "attribute" =>
        LET h    == last.arg[1]
            attr == last.arg[2]
            text == sysattr[reg.depth[h]][attr]
        IN  /\ last.out.res # NullStr =>
                   last.ret = [tag |-> "Ok", val |-> text] /\ last.out.res = text
            /\ last.out.res = NullStr /\ errno = 0 =>
                   last.ret = [tag |-> "NotFound", val |-> NULL]
            /\ last.out.res = NullStr /\ errno \notin {0, ENOMEM} =>
                   last.ret = [tag |-> "Err", val |-> errno]
            /\ last.out.res = NullStr /\ errno = ENOMEM =>
                   status = "aborted" /\ last.ret.tag = "Abort"
            /\ last.out.err = Untouched /\ attr = "flags" /\ text = "73" =>
                   last.ret = [tag |-> "Ok", val |-> "73"]
            /\ last.out.err = Untouched /\ attr = "missing" =>
                   last.ret = [tag |-> "NotFound", val |-> NULL]

C9_Step == last'.op = "attribute" => sysattr' = sysattr

\* C9: Device::attribute returns the text, NotFound or the system error as
\* the native call decides, and the read changes no attribute.
C9_AttributeRead == []C9_Result /\ [][C9_Step]_vars

\* attribute("missing") read NotFound on a device whose "flags" is "73".
C9_Witness ==
    /\ last.op = "attribute"
    /\ last.arg[2] = "missing"
    /\ last.ret.tag = "NotFound"
    /\ sysattr[reg.depth[last.arg[1]]]["flags"] = "73"
    /\ status = "running"

StatusOps == FilterOps \cup {"iter"}

\* C10: handle_error on the status of a filter, clear_filters or iter() call
\* returns on 0, aborts on the negative out-of-memory code and panics on any
\* other negative status; after a failing status the process does not go on
\* and the call gives nothing back.
C10_StatusNeverSwallowed ==
    last.op \in StatusOps =>
        /\ last.out.res = 0 => last.ret.tag \in {"Monitor", "MonitorIterator"}
        /\ last.out.res = 0 - ENOMEM => status = "aborted"
        /\ last.out.res < 0 /\ last.out.res # 0 - ENOMEM => status = "panicked"
        /\ last.out.res # 0 => last.ret.tag = "Abort" /\ status # "running"

\* filter_by_tag met a negative status other than out-of-memory and
\* panicked.
C10_Witness ==
    /\ last.op = "filter_by_tag"
    /\ last.out.res = 0 - EINVAL
    /\ status = "panicked"
    /\ last.ret.tag = "Abort"

\* The Action the contract gives a string.
KnownActions ==
    [add |-> "Add", remove |-> "Remove", change |-> "Change", move |-> "Move",
     online |-> "Online", offline |-> "Offline"]

ActionOf(s) == IF s \in DOMAIN KnownActions THEN <<KnownActions[s]>> ELSE <<"Other", s>>

\* C11: Action parsing never fails: "add", "remove", "change", "move",
\* "online", "offline" give Add, Remove, Change, Move, Online, Offline, and
\* any other string s gives Other(s) with s as it was.
C11_ParseTotal ==
    \A k \in 1..Len(parsed) :
        /\ parsed[k].ret.tag = "Ok"
        /\ parsed[k].ret.val = ActionOf(parsed[k].s)

\* "bind" was parsed to Other("bind") and then "add" to Add.
C11_Witness ==
    /\ Len(parsed) = 2
    /\ parsed[1] = [s |-> "bind", ret |-> [tag |-> "Ok", val |-> <<"Other", "bind">>]]
    /\ parsed[2] = [s |-> "add", ret |-> [tag |-> "Ok", val |-> <<"Add">>]]

\* The status flags of a descriptor, as bits.
FlagBits == {1, 2, 1024, O_NONBLOCK}

HasBit(x, bit) == (x \div bit) % 2 = 1

\* C12 (a Monitor returned): the Monitor is on the channel named and its
\* descriptor has O_NONBLOCK clear and every other status flag as the new
\* socket had it.
C12_Returned ==
    last.op = "create_monitor" /\ last.ret.tag = "Ok" =>
        LET m == last.ret.val
        IN  /\ monitors[m]
            /\ mon[m].name = last.arg
            /\ last.arg \in {"udev", "kernel"}
            /\ last.fcntl = <<0, 0>>
            /\ ~HasBit(mon[m].flags, O_NONBLOCK)
            /\ \A b \in FlagBits \ {O_NONBLOCK} :
                   HasBit(mon[m].flags, b) <=> HasBit(last.old_val, b)

\* C12 (a failing fcntl): when fcntl(F_GETFL) or fcntl(F_SETFL) fails no
\* Monitor is returned; the caller gets the system error with the OS code,
\* or the call panics on ENOMEM and EINVAL.
C12_FcntlFailed ==
    last.op = "create_monitor" /\ last.fcntl # <<0, 0>> =>
        LET e == IF last.fcntl[1] # 0 THEN last.fcntl[1] ELSE last.fcntl[2]
        IN  /\ last.ret.tag # "Ok"
            /\ ~monitors[last.out.res]
            /\ e \in {ENOMEM, EINVAL} =>
                   status = "panicked" /\ last.ret.tag = "Abort"
            /\ e \notin {ENOMEM, EINVAL} =>
                   status = "running" /\ last.ret = [tag |-> "Err", val |-> e]

\* C12: every Monitor that monitor() / monitor_kernel() returns is on the
\* named channel with a blocking descriptor whose other flags are untouched,
\* and a failure to read or set the flags returns no Monitor but the system
\* error (a panic for ENOMEM and EINVAL).
C12_BlockingMonitor == C12_Returned /\ C12_FcntlFailed

\* monitor_kernel() returned a Monitor whose socket had O_NONBLOCK and one
\* more flag set: only O_NONBLOCK is gone.
C12_Witness ==
    /\ last.op = "create_monitor"
    /\ last.arg = "kernel"
    /\ last.ret.tag = "Ok"
    /\ last.old_val = 2 + 1024 + O_NONBLOCK
    /\ mon[last.ret.val].flags = 2 + 1024

\* The iterators whose next() holds a device received and not yet returned.
Pending == {i \in Iters : iters[i].got.tag = "Some"}

\* C13: the items yielded are, in order, exactly the devices the native
\* receive returned: the k-th item is the k-th device received, yielded by
\* the iterator (of the same Monitor) whose next() received it, with an
\* Event that carries that device's action and sequence number; nothing is
\* yielded twice or out of turn, and the only device received and not yet
\* yielded is the one the running next() is about to return.
C13_YieldedAsReceived ==
    log.on =>
        LET R == log.received
            Y == log.yielded
        IN  /\ Len(R) = Len(Y) + Cardinality(Pending)
            /\ Cardinality(Pending) <= 1
            /\ \A i \in Pending :
                   R[Len(R)].iter = i /\ R[Len(R)].dev = iters[i].got.val
            /\ \A k \in 1..Len(Y) :
                   /\ Y[k].item.tag = "Some"
                   /\ Y[k].item.val = R[k].dev
                   /\ Y[k].iter = R[k].iter
                   /\ Y[k].mon = R[k].mon
                   /\ Y[k].item.event = [action |-> ActionOf(R[k].action),
                                         seqnum |-> R[k].seqnum]
            /\ \A j, k \in 1..Len(R) : j < k => R[j].seqnum < R[k].seqnum

\* Two iterators of one Monitor each yielded one event, the second iterator
\* first: a "bind" as Other("bind"), then an "add" as Add.
C13_Witness ==
    /\ log.on
    /\ Len(log.yielded) = 2
    /\ log.yielded[1].iter = 2
    /\ log.yielded[2].iter = 1
    /\ log.yielded[1].item.event = [action |-> <<"Other", "bind">>, seqnum |-> 1]
    /\ log.yielded[2].item.event = [action |-> <<"Add">>, seqnum |-> 2]

\* C14: every native monitor handle create_monitor acquired is either owned
\* by a Monitor value, whose drop releases it, or already released: while
\* the process runs no native monitor is alive without a Monitor that
\* wraps it, and none is referenced more than once.
C14_HandleOwnedOrReleased ==
    status = "running" =>
        \A m \in Mons :
            /\ mon[m].refs > 0 => monitors[m]
            /\ mon[m].refs <= 1

====
